---------------------------- MODULE Spec2Model ----------------------------
(***************************************************************************)
(* A model of src/search_doi.py: the DOISearcher session object.           *)
(*                                                                         *)
(* State: the cache directory (one file per cache path), the rate          *)
(* limiter's last_request_time, the wall clock, the in-memory              *)
(* search_history, and the files written by export_history.  Every public  *)
(* operation of the class is one action; the calls an operation makes      *)
(* (validate_doi, _get_from_cache, _wait_between_requests, the provider    *)
(* requests, _save_to_cache) are operators threaded through a context      *)
(* record, in the order of the code.                                       *)
(*                                                                         *)
(* Conventions.  Python's None is the empty tuple and a present value x is *)
(* the one-element tuple <<x>>.  A Python str is a tuple of one-character  *)
(* strings, so that regular-expression matching, replace() and strip()     *)
(* are computed on characters.  Time is counted in ticks,                  *)
(* TicksPerSecond to the second.                                           *)
(*                                                                         *)
(* Environment assumptions: the clock never runs backwards; time.sleep(d)  *)
(* returns no earlier than d after it was called; the cache directory,     *)
(* created by __init__, can be written (a failing cache write is not       *)
(* modelled; a failing export write is).                                   *)
(***************************************************************************)
EXTENDS Integers, Sequences, FiniteSets, TLC

VARIABLES
    use_cache,          \* self.use_cache
    cache,              \* the files of self.cache_dir, by path
    now,                \* the wall clock (time.time(), datetime.now())
    last_request_time,  \* self.last_request_time
    search_history,     \* self.search_history
    files,              \* the export files written so far, by name
    last                \* the last operation: its name, arguments, result and events

vars == <<use_cache, cache, now, last_request_time, search_history, files, last>>

-----------------------------------------------------------------------------
(* Bounds of the model *)

\* clock resolution: ticks per second
TicksPerSecond == 2
\* the clock never advances more than this many ticks past the marks 0 and cache_ttl
MaxTicks == 6
\* the most entries the history grows to
MaxHistory == 2
\* the most authors in a generated author list
MaxAuthors == 3
\* the most characters after the "/" of a generated identifier string
MaxSuffixLen == 2

-----------------------------------------------------------------------------
(* Python values *)

None == <<>>
Some(x) == <<x>>
IsNone(o) == o = <<>>
Val(o) == o[1]

Min(a, b) == IF a < b THEN a ELSE b

\* s[lo..hi] (1-based, inclusive), empty when lo > hi
Slice(s, lo, hi) == [i \in 1..(IF hi >= lo THEN hi - lo + 1 ELSE 0) |-> s[lo + i - 1]]

\* s[:n]
Take(s, n) == Slice(s, 1, Min(n, Len(s)))

IsSpace(c) == c \in {" ", "\t", "\n"}

\* str.strip(): leading and trailing whitespace removed
Strip(s) ==
    LET nonsp == {i \in 1..Len(s) : ~IsSpace(s[i])}
    IN  IF nonsp = {} THEN <<>>
        ELSE LET lo == CHOOSE i \in nonsp : \A j \in nonsp : i <= j
                 hi == CHOOSE i \in nonsp : \A j \in nonsp : i >= j
             IN  Slice(s, lo, hi)

\* str.replace(a, b) for one-character a and b
Replace(s, a, b) == [i \in 1..Len(s) |-> IF s[i] = a THEN b ELSE s[i]]

-----------------------------------------------------------------------------
(* DOI validation: self.doi_pattern and validate_doi *)

IsDigit(c) == c \in {"0", "1", "2", "3", "4", "5", "6", "7", "8", "9"}

\* \w of a str pattern: letters, digits and the underscore
IsWordChar(c) ==
    \/ IsDigit(c)
    \/ c = "_"
    \/ c \in {"a", "b", "c", "d", "e", "s", "x", "y", "z", "A", "B", "X"}

\* the character class [-._;()/:\w]
IsSuffixChar(c) == IsWordChar(c) \/ c \in {"-", ".", "_", ";", "(", ")", "/", ":"}

\* re.compile(r'^10\.\d{4,9}/[-._;()/:\w]+$').match(s): "^" anchors at the
\* start; "$" (no re.MULTILINE) matches at the end of the string and also just
\* before a newline that is the last character of the string.
doi_pattern_match(s) ==
    \E k \in 4..9 :
        /\ Len(s) >= 3 + k + 2
        /\ s[1] = "1" /\ s[2] = "0" /\ s[3] = "."
        /\ \A i \in 4..(3 + k) : IsDigit(s[i])
        /\ s[4 + k] = "/"
        /\ \E e \in {Len(s) - 1, Len(s)} :
              /\ e >= 5 + k
              /\ e = Len(s) \/ s[Len(s)] = "\n"
              /\ \A i \in (5 + k)..e : IsSuffixChar(s[i])

\* bool(doi and isinstance(doi, str) and self.doi_pattern.match(doi))
validate_doi(doi) == doi # <<>> /\ doi_pattern_match(doi)

\* os.path.join(self.cache_dir, f"{doi.replace('/', '_')}.json")
cache_dir == ".cache"
get_cache_path(doi) == <<cache_dir, "/">> \o Replace(doi, "/", "_") \o <<".json">>

-----------------------------------------------------------------------------
(* Time *)

\* self.min_delay = 1.0 (seconds)
min_delay == 1 * TicksPerSecond

DayTicks == 24 * 3600 * TicksPerSecond

\* self.cache_ttl = timedelta(days=7)
cache_ttl == 7 * DayTicks

\* the clock reading when the session object is constructed (an arbitrary epoch time)
SessionStart == 1000 * DayTicks

\* the clock readings the model keeps: within MaxTicks of the session's start,
\* or of one freshness window later
TimeOk(t) ==
    LET off == t - SessionStart
    IN  /\ off >= 0
        /\ off <= cache_ttl + MaxTicks
        /\ off % cache_ttl <= MaxTicks

\* datetime.isoformat(): the date and the time of day, and datetime.fromisoformat()
isoformat(t) == [valid |-> TRUE, date |-> t \div DayTicks, time |-> t % DayTicks]
NotADate == [valid |-> FALSE, date |-> 0, time |-> 0]
fromisoformat(s) == s.date * DayTicks + s.time

-----------------------------------------------------------------------------
(* Payloads of provider A and the cache files that hold them *)

\* a dict of provider A: the set of its keys, and the value of 'author' (a list)
Payload(keys, authors) == [keys |-> keys, author |-> authors]
EmptyPayload == Payload({}, <<>>)

\* truth value of a dict: it has at least one key
Truthy(p) == p.keys # {}

\* a file of the cache directory.  kind: "missing" (no such file), "corrupt"
\* (json.load raises), "json" (an object with the keys `keys`)
CacheFile(kind, keys, ts, data) == [kind |-> kind, keys |-> keys, timestamp |-> ts, data |-> data]
NoFile == CacheFile("missing", {}, NotADate, EmptyPayload)
CorruptFile == CacheFile("corrupt", {}, NotADate, EmptyPayload)
\* json.dump({'timestamp': ..., 'data': data}) and what json.load reads back
CacheRecord(ts, data) == CacheFile("json", {"timestamp", "data"}, ts, data)

\* an event of an operation: what happened, when it began and when it ended,
\* and for a request the response it got (None until it is answered)
Event(e, arg, t0, t1) == [e |-> e, arg |-> arg, t0 |-> t0, t1 |-> t1, resp |-> None]

\* the running state of an operation
Context == [now |-> now, last |-> last_request_time, cache |-> cache, events |-> <<>>]

\* what a call leaves: the running state, the value returned, and the
\* exception that left the call ("none" when it returned)
Result(c, ret) == [c |-> c, ret |-> ret, exc |-> "none"]
Raised(c, exc) == [c |-> c, ret |-> None, exc |-> exc]

\* lines 65-69 of _get_from_cache, the body of `with open(...)`, on the
\* content f of the file: the value returned, or the exception raised
ReadEntryNoExpiry(c, f) ==
    IF f.kind = "corrupt" THEN Raised(c, "JSONDecodeError")
    ELSE IF "timestamp" \notin f.keys THEN Raised(c, "KeyError")
    ELSE IF ~f.timestamp.valid THEN Raised(c, "ValueError")
    ELSE IF "data" \in f.keys THEN Result(c, Some(f.data)) ELSE Raised(c, "KeyError")
ReadEntry(c, f) ==
    IF f.kind = "corrupt" THEN Raised(c, "JSONDecodeError")              \* json.load
    ELSE IF "timestamp" \notin f.keys THEN Raised(c, "KeyError")         \* data['timestamp']
    ELSE IF ~f.timestamp.valid THEN Raised(c, "ValueError")              \* fromisoformat
    ELSE IF c.now - fromisoformat(f.timestamp) <= cache_ttl
         THEN IF "data" \in f.keys THEN Result(c, Some(f.data))
              ELSE Raised(c, "KeyError")                                 \* data['data']
         ELSE Result(c, None)

\* lines 62-72 of _get_from_cache: os.path.exists, then the body under `try`
CacheLookup(c, doi) ==
    IF c.cache[get_cache_path(doi)].kind = "missing" THEN Result(c, None)
    ELSE ReadEntry(c, c.cache[get_cache_path(doi)])

\* `except Exception` of _get_from_cache: an exception of the body becomes
\* the return of None
CatchNothing(r) == r
CatchAll(r) == IF r.exc # "none" THEN Result(r.c, None) ELSE r

Logged(c, e, arg) == [c EXCEPT !.events = Append(@, Event(e, arg, c.now, c.now))]

\* _get_from_cache(doi)
get_from_cache(c, doi) ==
    IF ~use_cache THEN Result(c, None)
    ELSE CatchAll(CacheLookup(Logged(c, "cache_read", doi), doi))

\* lines 80-85 of _save_to_cache: the file written
WriteKeepsOldData(c, doi, data) ==
    IF c.cache[get_cache_path(doi)].kind = "json"
    THEN [c EXCEPT !.cache[get_cache_path(doi)].timestamp = isoformat(c.now)]
    ELSE [c EXCEPT !.cache[get_cache_path(doi)] = CacheRecord(isoformat(c.now), data)]
WriteEntry(c, doi, data) ==
    [c EXCEPT !.cache[get_cache_path(doi)] = CacheRecord(isoformat(c.now), data)]

\* _save_to_cache(doi, data)
save_to_cache(c, doi, data) ==
    IF ~use_cache THEN c
    ELSE WriteEntry(Logged(c, "cache_write", doi), doi, data)

\* lines 91-93 of _wait_between_requests: the clock reading when the wait is
\* over; over: how late time.sleep returns
WakeTime(c, over) ==
    IF c.now - c.last < min_delay
    THEN c.now + (min_delay - (c.now - c.last)) + over
    ELSE c.now

\* _wait_between_requests()
WaitStampsInvocation(c, over) ==
    [c EXCEPT !.now = WakeTime(c, over), !.last = c.now,
              !.events = Append(@, Event("throttle", <<>>, c.now, WakeTime(c, over)))]
wait_between_requests(c, over) ==
    [c EXCEPT !.now = WakeTime(c, over), !.last = WakeTime(c, over),
              !.events = Append(@, Event("throttle", <<>>, c.now, WakeTime(c, over)))]

\* a response of provider A to cr.works(ids=doi): kind "error" (the call
\* raises), "nomessage" (no 'message' key), "message"
ResponseA(kind, message) == [kind |-> kind, message |-> message]

\* the request to provider A, taking lat ticks
RequestA(c, doi, lat) ==
    [c EXCEPT !.now = c.now + lat,
              !.events = Append(@, Event("request_a", doi, c.now, c.now + lat))]

\* the request just sent returns or raises: resp is what the provider answered
Answered(c, resp) == [c EXCEPT !.events[Len(c.events)].resp = Some(resp)]

\* lines 114-125 of get_paper_info, on the answer of provider A: `except
\* Exception` turns an exception of the request into the return of None
OnResponseACachesFailure(c, doi, resp) ==
    IF resp.kind = "error" THEN Result(c, None)
    ELSE IF resp.kind = "nomessage" THEN Result(save_to_cache(c, doi, resp.message), None)
    ELSE Result(save_to_cache(c, doi, resp.message), Some(resp.message))
OnResponseA(c, doi, resp) ==
    IF resp.kind = "error" THEN Result(c, None)
    ELSE IF resp.kind = "nomessage" THEN Result(c, None)
    ELSE Result(save_to_cache(c, doi, resp.message), Some(resp.message))

\* lines 109-125 of get_paper_info, after the request was sent
AfterRequestA(c, doi, resp) == OnResponseA(Answered(c, resp), doi, resp)

\* lines 107-125 of get_paper_info: the fetch from provider A
FetchWithoutThrottle(c, doi, env) ==
    AfterRequestA(RequestA(c, doi, env.lat), doi, env.respA)
FetchPaperInfo(c, doi, env) ==
    AfterRequestA(RequestA(wait_between_requests(c, env.over), doi, env.lat), doi, env.respA)

\* lines 104-125 of get_paper_info, g being what _get_from_cache left
AfterCache(g, doi, env) ==
    IF g.exc # "none" THEN g                       \* the call is outside any `try`
    ELSE IF ~IsNone(g.ret) /\ Truthy(Val(g.ret)) THEN g      \* if cached_data:
    ELSE FetchPaperInfo(g.c, doi, env)

\* get_paper_info(doi); env: the response of provider A, the latency of a
\* request and the lateness of a sleep
GetValidatesLate(c, doi, env) ==
    IF ~validate_doi(doi) THEN Result(AfterCache(get_from_cache(c, doi), doi, env).c, None)
    ELSE AfterCache(get_from_cache(c, doi), doi, env)
GetIgnoresValidation(c, doi, env) == AfterCache(get_from_cache(c, doi), doi, env)
get_paper_info(c, doi, env) ==
    IF ~validate_doi(doi) THEN Result(c, None)
    ELSE AfterCache(get_from_cache(c, doi), doi, env)

-----------------------------------------------------------------------------
(* Provider B: the research profile of an author *)

Profile(papers, total) == [papers |-> papers, total |-> total]
EmptyProfile == Profile(<<>>, 0)

\* a block of the MEDLINE text: the text after the tag of its 'TI  -', 'TA  -'
\* and 'DP  -' lines (line[6:]), None for a tag the block lacks
Block(ti, ta, dp) == [TI |-> ti, TA |-> ta, DP |-> dp]

\* title.strip() etc. of one block: the dict appended for it
PaperOf(b) ==
    [title |-> IF IsNone(b.TI) THEN None ELSE Some(Strip(Val(b.TI))),
     journal |-> IF IsNone(b.TA) THEN None ELSE Some(Strip(Val(b.TA))),
     year |-> IF IsNone(b.DP) THEN None ELSE Some(Take(Strip(Val(b.DP)), 4))]

\* `if title:` a block is kept when its title is neither None nor empty
HasTitle(b) == ~IsNone(PaperOf(b).title) /\ Val(PaperOf(b).title) # <<>>

\* the list `papers` built from the blocks, in order
RECURSIVE ParsePapers(_)
ParsePapers(blocks) ==
    IF blocks = <<>> THEN <<>>
    ELSE (IF HasTitle(Head(blocks)) THEN <<PaperOf(Head(blocks))>> ELSE <<>>)
         \o ParsePapers(Tail(blocks))

\* a response of provider B: search is "error" (esearch or Entrez.read
\* raises) or "ok" with `ids` identifiers and the count `count` (None for a
\* 'Count' that int() rejects); fetch is "error" (efetch or handle.read
\* raises) or "ok" with the blocks of the text
ResponseB(search, ids, count, fetch, blocks) ==
    [search |-> search, ids |-> ids, count |-> count, fetch |-> fetch, blocks |-> blocks]

RequestB(c, e, name, lat) ==
    [c EXCEPT !.now = c.now + lat, !.events = Append(@, Event(e, name, c.now, c.now + lat))]

\* lines 154-187 of get_author_research, on the answer to the second request
OnFetchedKeepsPapers(c, resp) ==
    IF resp.fetch = "error" THEN Result(c, EmptyProfile)
    ELSE IF IsNone(resp.count) THEN Result(c, Profile(ParsePapers(resp.blocks), 0))
    ELSE Result(c, Profile(ParsePapers(resp.blocks), Val(resp.count)))
OnFetched(c, resp) ==
    IF resp.fetch = "error" THEN Result(c, EmptyProfile)
    ELSE IF IsNone(resp.count) THEN Result(c, EmptyProfile)      \* int(record['Count'])
    ELSE Result(c, Profile(ParsePapers(resp.blocks), Val(resp.count)))

\* lines 147-187 of get_author_research, after the second request was sent
AfterFetch(c, resp) == OnFetched(Answered(c, resp), resp)

\* lines 139-187 of get_author_research, on the answer to the first request
OnSearchedAlwaysFetches(c, author_name, env) ==
    IF env.respB.search = "error" THEN Result(c, EmptyProfile)
    ELSE AfterFetch(RequestB(wait_between_requests(c, env.over), "request_b_fetch",
                             author_name, env.lat),
                    env.respB)
OnSearched(c, author_name, env) ==
    IF env.respB.search = "error" THEN Result(c, EmptyProfile)
    ELSE IF env.respB.ids = 0 THEN Result(c, EmptyProfile)
    ELSE AfterFetch(RequestB(wait_between_requests(c, env.over), "request_b_fetch",
                             author_name, env.lat),
                    env.respB)

\* lines 133-187 of get_author_research, after the first request was sent
AfterSearch(c, author_name, env) == OnSearched(Answered(c, env.respB), author_name, env)

\* get_author_research(author_name)
get_author_research(c, author_name, env) ==
    AfterSearch(RequestB(wait_between_requests(c, env.over), "request_b_search",
                         author_name, env.lat),
                author_name, env)

-----------------------------------------------------------------------------
(* Authors and find_authors *)

\* an entry of the author list: given and family ('' when the key is absent),
\* sequence, and contributor-role.function ("none" when absent)
Author(given, family, sequence, function) ==
    [given |-> given, family |-> family, sequence |-> sequence, function |-> function]

\* f"{a.get('given', '')} {a.get('family', '')}".strip()
FullName(a) == Strip(a.given \o <<" ">> \o a.family)

\* author.get('sequence') == 'additional' and
\* author.get('contributor-role', {}).get('function') == 'corresponding'
IsMarked(a) == a.sequence = "additional" /\ a.function = "corresponding"

\* truth value of an Optional[str]: neither None nor ''
TruthyStr(o) == ~IsNone(o) /\ Val(o) # <<>>

\* first_author, lines 198-201
FirstAuthor(authors) ==
    IF authors # <<>> THEN Some(FullName(authors[1])) ELSE None

\* the loop over reversed(authors), lines 204-209: the name of the marked
\* entry of highest index, None when no entry is marked
MarkedAuthor(authors) ==
    LET marked == {i \in 1..Len(authors) : IsMarked(authors[i])}
    IN  IF marked = {} THEN None
        ELSE Some(FullName(authors[CHOOSE i \in marked : \A j \in marked : j <= i]))

\* corresponding_author, lines 204-214
CorrespondingFallsBackToFirst(authors) ==
    IF ~TruthyStr(MarkedAuthor(authors)) /\ authors # <<>>
    THEN Some(FullName(authors[1]))
    ELSE MarkedAuthor(authors)
CorrespondingAuthor(authors) ==
    IF ~TruthyStr(MarkedAuthor(authors)) /\ authors # <<>>
    THEN Some(FullName(authors[Len(authors)]))
    ELSE MarkedAuthor(authors)

HistoryEntry(doi, first, corr, ts, info) ==
    [doi |-> doi, first_author |-> first, corresponding_author |-> corr,
     timestamp |-> ts, research_info |-> info]

\* what find_authors leaves: as Result, with the history
Found(c, ret, exc, hist) == [c |-> c, ret |-> ret, exc |-> exc, hist |-> hist]

\* lines 217-220 of find_authors: research_info
Present(q) == Result(q.c, Some(q.ret))
ResearchInfoForAnyName(c, corr, env) ==
    IF ~IsNone(corr) THEN Present(get_author_research(c, Val(corr), env))
    ELSE Result(c, None)
ResearchInfo(c, corr, env) ==
    IF TruthyStr(corr) THEN Present(get_author_research(c, Val(corr), env))
    ELSE Result(c, None)

\* lines 222-231 of find_authors: the history entry and the triple returned
RecordedWhenResolved(r, hist, doi, first, corr) ==
    Found(r.c, <<first, corr, r.ret>>, "none",
          IF IsNone(first) THEN hist
          ELSE Append(hist, HistoryEntry(doi, first, corr, isoformat(r.c.now), r.ret)))
Recorded(r, hist, doi, first, corr) ==
    Found(r.c, <<first, corr, r.ret>>, "none",
          Append(hist, HistoryEntry(doi, first, corr, isoformat(r.c.now), r.ret)))

\* lines 195-231 of find_authors
Resolve(c, hist, doi, authors, env) ==
    Recorded(ResearchInfo(c, CorrespondingAuthor(authors), env), hist, doi,
             FirstAuthor(authors), CorrespondingAuthor(authors))

\* lines 192-231 of find_authors, g being what get_paper_info left
AfterPaperInfo(g, hist, doi, env) ==
    IF g.exc # "none" THEN Found(g.c, None, g.exc, hist)
    ELSE IF IsNone(g.ret) THEN Found(g.c, <<None, None, None>>, "none", hist)
    ELSE IF ~Truthy(Val(g.ret)) \/ "author" \notin Val(g.ret).keys
         THEN Found(g.c, <<None, None, None>>, "none", hist)
    ELSE Resolve(g.c, hist, doi, Val(g.ret).author, env)

\* find_authors(doi)
find_authors(c, hist, doi, env) == AfterPaperInfo(get_paper_info(c, doi, env), hist, doi, env)

-----------------------------------------------------------------------------
(* export_history *)

\* the header row written first (the column titles, here in English)
CsvHeader == <<"DOI", "first author", "corresponding author", "query time",
               "publication count", "recent papers">>

\* csv.writer writes None as the empty string
Cell(o) == IF IsNone(o) THEN <<>> ELSE Val(o)

\* f"{p['title']} ({p['year']})"
PaperText(p) ==
    Val(p.title) \o <<" ", "(">>
        \o (IF IsNone(p.year) THEN <<"N", "o", "n", "e">> ELSE Val(p.year)) \o <<")">>

\* '; '.join(texts)
RECURSIVE JoinSemi(_)
JoinSemi(texts) ==
    IF texts = <<>> THEN <<>>
    ELSE IF Len(texts) = 1 THEN texts[1]
    ELSE texts[1] \o <<";", " ">> \o JoinSemi(Tail(texts))

\* recent_papers of a record whose research_info is a dict, lines 256-261
RecentPapers(info) ==
    IF info.papers # <<>>
    THEN LET papers == Take(info.papers, 3)
         IN  JoinSemi([i \in 1..Len(papers) |-> PaperText(papers[i])])
    ELSE <<>>

\* record.get('research_info', {}).get(...) raises AttributeError when the
\* value of 'research_info' is None: the key is present, so the default {}
\* is not used
RowRaises(record) == IsNone(record.research_info)

\* the row written for a record, lines 263-270
Row(record) ==
    [doi |-> record.doi,
     first_author |-> Cell(record.first_author),
     corresponding_author |-> Cell(record.corresponding_author),
     timestamp |-> record.timestamp,
     total |-> Val(record.research_info).total,
     recent_papers |-> RecentPapers(Val(record.research_info))]

\* the rows written before the loop ends or a record raises
RECURSIVE RowsWritten(_)
RowsWritten(hist) ==
    IF hist = <<>> \/ RowRaises(Head(hist)) THEN <<>>
    ELSE <<Row(Head(hist))>> \o RowsWritten(Tail(hist))

\* a file name: an explicit name has stamp 0; the default name is
\* f'search_history_{now:%Y%m%d_%H%M%S}.csv', the clock reading to the second
FileName(stem, stamp) == <<stem, stamp>>
DefaultFileName(t) == FileName("search_history_", t \div TicksPerSecond)

ExportFile(rows) == [header |-> CsvHeader, rows |-> rows]

\* what export_history leaves: the files, the history and its outcome
Exported(fs, hist, outcome, name) == [files |-> fs, hist |-> hist, outcome |-> outcome, name |-> name]

\* lines 243-276 of export_history, name being the file to write; io: whether
\* open() succeeds ("ok") or raises ("fail").  `except Exception` ends the
\* export at the first exception, of open() ("write error") or of a row
\* ("error"); the file opened keeps the rows written before it.
WriteFileNewRowsOnly(fs, hist, name, io) ==
    IF io = "fail" THEN Exported(fs, hist, "write error", Some(name))
    ELSE Exported((name :> ExportFile(RowsWritten(IF fs = <<>> THEN hist ELSE Tail(hist)))) @@ fs,
                  hist,
                  IF \E i \in 1..Len(hist) : RowRaises(hist[i]) THEN "error" ELSE "exported",
                  Some(name))
WriteFileAndClear(fs, hist, name, io) ==
    IF io = "fail" THEN Exported(fs, hist, "write error", Some(name))
    ELSE Exported((name :> ExportFile(RowsWritten(hist))) @@ fs, <<>>,
                  IF \E i \in 1..Len(hist) : RowRaises(hist[i]) THEN "error" ELSE "exported",
                  Some(name))
WriteFile(fs, hist, name, io) ==
    IF io = "fail" THEN Exported(fs, hist, "write error", Some(name))
    ELSE Exported((name :> ExportFile(RowsWritten(hist))) @@ fs, hist,
                  IF \E i \in 1..Len(hist) : RowRaises(hist[i]) THEN "error" ELSE "exported",
                  Some(name))

\* export_history(filename); filename is None or a name
export_history(fs, hist, t, filename, io) ==
    IF hist = <<>> THEN Exported(fs, hist, "nothing to export", None)
    ELSE WriteFile(fs, hist, IF IsNone(filename) THEN DefaultFileName(t) ELSE Val(filename), io)

-----------------------------------------------------------------------------
(* The inputs the operations are called with *)

\* identifiers: three that validate_doi accepts (DoiB and DoiC share a cache
\* path) and four that it rejects
DoiA == <<"1", "0", ".", "1", "2", "3", "4", "/", "a">>
DoiB == <<"1", "0", ".", "1", "2", "3", "4", "/", "b", "/", "c">>
DoiC == <<"1", "0", ".", "1", "2", "3", "4", "/", "b", "_", "c">>
DoiEmpty == <<>>
DoiNoSuffix == <<"1", "0", ".", "1", "0", "3", "8">>
DoiShortPrefix == <<"1", "0", ".", "1", "2", "3", "/", "a">>
DoiLeading == <<"x", "1", "0", ".", "1", "2", "3", "4", "/", "a">>

ValidDois == {DoiA, DoiB, DoiC}
InvalidDois == {DoiEmpty, DoiNoSuffix, DoiShortPrefix, DoiLeading}
Dois == ValidDois \cup InvalidDois
Paths == {get_cache_path(d) : d \in Dois}

\* author entries: named or not, marked corresponding or not
AuthFirst == Author(<<"A">>, <<"O">>, "first", "none")
AuthFirstMarked == Author(<<"A">>, <<"O">>, "first", "corresponding")
AuthMarked == Author(<<"B">>, <<"T">>, "additional", "corresponding")
AuthPlain == Author(<<"C">>, <<>>, "additional", "none")
AuthOrg == Author(<<>>, <<>>, "additional", "none")
AuthOrgMarked == Author(<<>>, <<>>, "additional", "corresponding")

WithAuthors(authors) == Payload({"author", "title"}, authors)
PayNoAuthor == Payload({"title"}, <<>>)
PayNoAuthors == WithAuthors(<<>>)
PayTwo == WithAuthors(<<AuthFirst, AuthMarked>>)
PayOrgLast == WithAuthors(<<AuthFirst, AuthOrg>>)
PayMarkedMiddle == WithAuthors(<<AuthFirst, AuthMarked, AuthPlain>>)

\* responses of provider B
BlockFull == Block(Some(<<" ", "T">>), Some(<<"J">>), Some(<<"2", "0", "2", "0", " ", "J">>))
BlockNoYear == Block(Some(<<"U">>), None, None)
BlockNoTitle == Block(None, Some(<<"J">>), Some(<<"2", "0", "2", "1">>))
BlockBlankTitle == Block(Some(<<" ">>), None, None)
RespBSearchError == ResponseB("error", 0, None, "error", <<>>)
RespBNoMatch == ResponseB("ok", 0, Some(0), "error", <<>>)
RespBFetchError == ResponseB("ok", 2, Some(7), "error", <<>>)
RespBBadCount == ResponseB("ok", 1, None, "ok", <<BlockFull>>)
RespBPapers ==
    ResponseB("ok", 4, Some(7), "ok", <<BlockFull, BlockNoTitle, BlockNoYear, BlockBlankTitle>>)
ResponsesB == {RespBSearchError, RespBNoMatch, RespBFetchError, RespBBadCount, RespBPapers}

ResponsesA(payloads) ==
    {ResponseA("error", EmptyPayload), ResponseA("nomessage", EmptyPayload)}
        \cup {ResponseA("message", p) : p \in payloads}

\* the environment of one call: the providers' responses, the latency of
\* each request and the lateness of each sleep
Envs(payloads, responsesB, lats, overs) ==
    [respA : ResponsesA(payloads), respB : responsesB, lat : lats, over : overs]

\* cache files left by an earlier session, by their age when this one starts
Aged(age, data) == CacheRecord(isoformat(SessionStart - age), data)
NoTimestampFile == CacheFile("json", {"data"}, NotADate, PayTwo)
BadTimestampFile == CacheFile("json", {"timestamp", "data"}, NotADate, PayTwo)

-----------------------------------------------------------------------------
(* The operations *)

Op(op, arg, ret, exc, events) ==
    [op |-> op, arg |-> arg, ret |-> ret, exc |-> exc, events |-> events]

\* time passes between two operations
Tick(steps) ==
    \E d \in steps :
        /\ TimeOk(now + d)
        /\ now' = now + d
        /\ last' = Op("tick", <<>>, None, "none", <<>>)
        /\ UNCHANGED <<use_cache, cache, last_request_time, search_history, files>>

\* the state a call leaves, r being what it returned and left
Leaves(op, arg, r) ==
    /\ TimeOk(r.c.now)
    /\ now' = r.c.now
    /\ last_request_time' = r.c.last
    /\ cache' = r.c.cache
    /\ last' = Op(op, arg, r.ret, r.exc, r.c.events)

GetPaperInfo(dois, envs) ==
    \E doi \in dois, env \in envs :
        /\ Leaves("get_paper_info", doi, get_paper_info(Context, doi, env))
        /\ UNCHANGED <<use_cache, search_history, files>>

LeavesHistory(r) ==
    /\ Len(r.hist) <= MaxHistory
    /\ search_history' = r.hist

FindAuthors(dois, envs) ==
    \E doi \in dois, env \in envs :
        /\ Leaves("find_authors", doi, find_authors(Context, search_history, doi, env))
        /\ LeavesHistory(find_authors(Context, search_history, doi, env))
        /\ UNCHANGED <<use_cache, files>>

LeavesFiles(r) ==
    /\ files' = r.files
    /\ search_history' = r.hist
    /\ last' = Op("export_history", r.name, r.outcome, "none", <<>>)

ExportHistory(names, ios) ==
    \E filename \in names, io \in ios :
        /\ LeavesFiles(export_history(files, search_history, now, filename, io))
        /\ UNCHANGED <<use_cache, cache, now, last_request_time>>

\* the cache store and the rate limiter called on their own
CacheGet(dois) ==
    \E doi \in dois :
        /\ Leaves("get_from_cache", doi, get_from_cache(Context, doi))
        /\ UNCHANGED <<use_cache, search_history, files>>

CachePut(dois, payloads) ==
    \E doi \in dois, data \in payloads :
        /\ Leaves("save_to_cache", doi, Result(save_to_cache(Context, doi, data), Some(data)))
        /\ UNCHANGED <<use_cache, search_history, files>>

Throttle(overs) ==
    \E over \in overs :
        /\ Leaves("wait_between_requests", <<>>, Result(wait_between_requests(Context, over), None))
        /\ UNCHANGED <<use_cache, cache, search_history, files>>

Researched(r) == Result(r.c, Some(r.ret))

GetAuthorResearch(names, envs) ==
    \E name \in names, env \in envs :
        /\ Leaves("get_author_research", name, Researched(get_author_research(Context, name, env)))
        /\ UNCHANGED <<use_cache, search_history, files>>

-----------------------------------------------------------------------------
(* The session: every public operation, on a cache that an earlier session *)
(* may have filled                                                         *)

\* the state after __init__, but for the cache directory
Constructed ==
    /\ now = SessionStart
    /\ last_request_time = 0
    /\ search_history = <<>>
    /\ files = <<>>
    /\ last = Op("init", <<>>, None, "none", <<>>)

\* the cache directories that hold a file of `initial`, or none, for each
\* identifier of `dois`, and no other file
CacheOf(dois, initial) ==
    {f \in [Paths -> initial \cup {NoFile}] :
        \A p \in Paths : (\A d \in dois : get_cache_path(d) # p) => f[p] = NoFile}

SessionDois == {DoiA, DoiEmpty, DoiNoSuffix}
SessionPayloads == {PayNoAuthor, PayNoAuthors, PayTwo}
SessionEnvs == Envs(SessionPayloads, {RespBNoMatch, RespBPapers}, {0}, {0})
\* get_paper_info never calls provider B
SessionEnvsA == Envs(SessionPayloads, {RespBNoMatch}, {0}, {0})

Init ==
    /\ Constructed
    /\ use_cache \in BOOLEAN
    /\ cache \in CacheOf({DoiA}, {Aged(6 * DayTicks, PayTwo)})

Next ==
    \/ Tick({cache_ttl})
    \/ GetPaperInfo(SessionDois, SessionEnvsA)
    \/ FindAuthors(SessionDois, SessionEnvs)
    \/ ExportHistory({Some(FileName("out.csv", 0))}, {"ok", "fail"})

Spec == Init /\ [][Next]_vars

-----------------------------------------------------------------------------
(* The cache store: get_paper_info and the cache's get and put, on a cache *)
(* directory that an earlier session left in any condition                 *)

CacheInitial ==
    {CorruptFile, NoTimestampFile, BadTimestampFile,
     Aged(6 * DayTicks, PayTwo), Aged(7 * DayTicks, PayTwo), Aged(7 * DayTicks + 1, PayTwo),
     Aged(8 * DayTicks, PayTwo), Aged(6 * DayTicks, EmptyPayload)}

CacheDois == {DoiA, DoiEmpty}
CachePayloads == {EmptyPayload, PayTwo}

InitCache ==
    /\ Constructed
    /\ use_cache \in BOOLEAN
    /\ cache \in CacheOf({DoiA}, CacheInitial)

NextCache ==
    \/ Tick({cache_ttl})
    \/ GetPaperInfo(CacheDois, Envs(CachePayloads, {RespBNoMatch}, {0}, {0}))
    \/ CacheGet(CacheDois \ {DoiEmpty})
    \/ CachePut(CacheDois \ {DoiEmpty}, CachePayloads)

SpecCache == InitCache /\ [][NextCache]_vars

-----------------------------------------------------------------------------
(* The rate limiter: throttle on its own and in the two requests of a      *)
(* profile fetch, with requests that take time and sleeps that end late    *)

NameBT == <<"B", " ", "T">>

InitThrottle ==
    /\ Constructed
    /\ use_cache = FALSE
    /\ cache \in CacheOf({}, {})

NextThrottle ==
    \/ Tick({1, min_delay, cache_ttl})
    \/ Throttle({0, 1})
    \/ GetAuthorResearch({NameBT}, Envs({PayTwo}, ResponsesB, {0, 1, min_delay}, {0, 1}))

SpecThrottle == InitThrottle /\ [][NextThrottle]_vars

-----------------------------------------------------------------------------
(* Author disambiguation: find_authors on every author list of up to       *)
(* MaxAuthors entries, held by a fresh cache entry                         *)

AuthorPool == {AuthFirstMarked, AuthMarked, AuthPlain, AuthOrg, AuthOrgMarked}
AuthorLists == UNION {[1..n -> AuthorPool] : n \in 0..MaxAuthors}

InitAuthors ==
    /\ Constructed
    /\ use_cache = TRUE
    /\ cache \in {[p \in Paths |-> IF p = get_cache_path(DoiA)
                                     THEN Aged(6 * DayTicks, WithAuthors(authors))
                                     ELSE NoFile] : authors \in AuthorLists}

NextAuthors ==
    \/ FindAuthors({DoiA}, Envs({PayTwo}, {RespBNoMatch, RespBPapers}, {0}, {0}))

SpecAuthors == InitAuthors /\ [][NextAuthors]_vars

-----------------------------------------------------------------------------
(* The resolver and its providers: find_authors on an empty cache, with    *)
(* every answer of provider B, requests that take time and sleeps that end *)
(* late                                                                    *)

ResolverPayloads == {PayNoAuthors, PayTwo}

InitResolver ==
    /\ Constructed
    /\ use_cache \in BOOLEAN
    /\ cache \in CacheOf({}, {})

NextResolver ==
    \/ Tick({1, min_delay})
    \/ FindAuthors({DoiA}, Envs(ResolverPayloads, ResponsesB, {0, 1}, {0, 1}))

SpecResolver == InitResolver /\ [][NextResolver]_vars

-----------------------------------------------------------------------------
(* Export: the history exported again and again, under the default name    *)
(* and under a given one, as the clock advances                            *)

InitExport ==
    /\ Constructed
    /\ use_cache = FALSE
    /\ cache \in CacheOf({}, {})

NextExport ==
    \/ Tick({1, TicksPerSecond})
    \/ FindAuthors({DoiA}, Envs({PayNoAuthors, PayTwo}, {RespBNoMatch, RespBPapers}, {0}, {0}))
    \/ ExportHistory({None, Some(FileName("out.csv", 0))}, {"ok", "fail"})

SpecExport == InitExport /\ [][NextExport]_vars

-----------------------------------------------------------------------------
(* Validation: validate_doi on strings around the identifier pattern       *)

ValidateDoi(strings) ==
    \E s \in strings :
        /\ last' = Op("validate_doi", s, validate_doi(s), "none", <<>>)
        /\ UNCHANGED <<use_cache, cache, now, last_request_time, search_history, files>>

\* the example identifier of the help text
DoiExample == <<"1", "0", ".", "1", "0", "3", "8", "/", "s", "4", "1", "5", "8", "6", "-",
                "0", "2", "0", "-", "2", "1", "6", "9", "-", "0">>

\* strings: something or nothing before "10.", then 3, 4, 9 or 10 digits
\* (or a letter among the digits), "/" or not, and up to MaxSuffixLen
\* characters, allowed in a suffix or not
Digits(n) == [i \in 1..n |-> "1"]
Heads == {<<>>, <<"x">>}
Registrants == {Digits(3), Digits(4), Digits(9), Digits(10), <<"1", "2", "a", "4">>}
Separators == {<<"/">>, <<>>}
SuffixChars == {"a", "/", "_", " ", "\n"}
Suffixes == UNION {[1..n -> SuffixChars] : n \in 0..MaxSuffixLen}
Strings ==
    {h \o <<"1", "0", ".">> \o r \o sep \o suf :
        h \in Heads, r \in Registrants, sep \in Separators, suf \in Suffixes}
        \cup {DoiExample, DoiEmpty, DoiNoSuffix}

InitValidate ==
    /\ Constructed
    /\ use_cache = TRUE
    /\ cache \in CacheOf({}, {})

NextValidate ==
    \/ ValidateDoi(Strings)

SpecValidate == InitValidate /\ [][NextValidate]_vars

-----------------------------------------------------------------------------
(* Properties of the session *)

EventNames(events) == [i \in 1..Len(events) |-> events[i].e]

\* C1: a call of get_paper_info or find_authors with an identifier that
\* validate_doi rejects (the empty string included) returns None, or the
\* triple of None, raises nothing and has no effect: no throttle, no request,
\* no read or write of the cache (no event at all), and last_request_time,
\* the cache and the history are as before.
C1_InvalidIdentifierNoEffect ==
    [][(last'.op \in {"get_paper_info", "find_authors"} /\ ~validate_doi(last'.arg)) =>
          /\ last'.ret = IF last'.op = "get_paper_info" THEN None ELSE <<None, None, None>>
          /\ last'.exc = "none"
          /\ last'.events = <<>>
          /\ last_request_time' = last_request_time
          /\ now' = now
          /\ cache' = cache
          /\ search_history' = search_history]_vars

\* a rejected identifier was looked up when the limiter, the cache and the
\* history all held something to disturb
C1_Witness ==
    /\ last.op = "find_authors"
    /\ ~validate_doi(last.arg)
    /\ last.ret = <<None, None, None>>
    /\ last_request_time # 0
    /\ search_history # <<>>
    /\ cache[get_cache_path(DoiA)].kind = "json"

\* the row the export is to write for a history entry: the publication
\* count 0 and no preview when the entry has no research profile
ExpectedRow(record) ==
    [doi |-> record.doi,
     first_author |-> Cell(record.first_author),
     corresponding_author |-> Cell(record.corresponding_author),
     timestamp |-> record.timestamp,
     total |-> IF IsNone(record.research_info) THEN 0 ELSE Val(record.research_info).total,
     recent_papers |-> IF IsNone(record.research_info) THEN <<>>
                       ELSE RecentPapers(Val(record.research_info))]

\* C6: an export of a non-empty history whose file could be opened leaves in
\* the file exactly one row per history entry, in entry order, each with the
\* entry's identifier, authors, timestamp, publication count and preview, the
\* count being 0 for an entry without research profile.
C6_ExportWritesEveryEntry ==
    (/\ last.op = "export_history"
     /\ search_history # <<>>
     /\ last.ret # "write error")
        => /\ Val(last.arg) \in DOMAIN files
           /\ files[Val(last.arg)].rows =
                  [i \in 1..Len(search_history) |-> ExpectedRow(search_history[i])]

\* C7: the history only grows at its end, and export_history leaves it as it
\* was, whatever its outcome: exported, failed or nothing to export.
C7_HistoryAppendOnly ==
    [][/\ Len(search_history') >= Len(search_history)
       /\ SubSeq(search_history', 1, Len(search_history)) = search_history
       /\ last'.op = "export_history" => search_history' = search_history]_vars

\* an export failed on open() with two entries in the history
C7_Witness ==
    /\ last.op = "export_history"
    /\ last.ret = "write error"
    /\ Len(search_history) >= 2

-----------------------------------------------------------------------------
(* Properties of the cache store *)

SevenDays == 7 * 24 * 3600 * TicksPerSecond

\* a cache file that holds a timestamp and a payload, and its age at time t
IsEntry(f) == f.kind = "json" /\ f.keys = {"timestamp", "data"} /\ f.timestamp.valid
Age(f, t) == t - (f.timestamp.date * DayTicks + f.timestamp.time)

\* a cache file that cannot be used at time t: missing, corrupt, without a
\* readable timestamp, or older than seven days
Unusable(f, t) ==
    \/ f.kind \in {"missing", "corrupt"}
    \/ f.kind = "json" /\ ("timestamp" \notin f.keys \/ ~f.timestamp.valid)
    \/ IsEntry(f) /\ Age(f, t) > SevenDays

EntryOf(doi) == cache[get_cache_path(doi)]

IsNetwork(e) == e.e \in {"throttle", "request_a", "request_b_search", "request_b_fetch"}

\* C2: with the cache enabled, get_paper_info for a valid identifier whose
\* cache entry is at most seven days old returns the payload of the entry,
\* whatever payload it is, without a throttle and without a request to
\* provider A.
C2_FreshEntryServedWithoutNetwork ==
    [][(/\ last'.op = "get_paper_info"
        /\ validate_doi(last'.arg)
        /\ use_cache
        /\ IsEntry(EntryOf(last'.arg))
        /\ Age(EntryOf(last'.arg), now) <= SevenDays)
          => /\ last'.ret = Some(EntryOf(last'.arg).data)
             /\ \A i \in 1..Len(last'.events) : ~IsNetwork(last'.events[i])
             /\ last_request_time' = last_request_time]_vars

\* C8: the cache get returns a payload only from an entry at most seven days
\* old, and then that entry's payload; with the cache enabled an entry at
\* most seven days old (six days, say) is returned and an older one (eight
\* days, say) is not; and get_paper_info on an older entry goes on as on a
\* miss: it reads the cache, throttles, then sends the request to provider A.
C8_StaleEntryIsAbsent ==
    [][/\ (last'.op = "get_from_cache" /\ ~IsNone(last'.ret))
            => /\ IsEntry(EntryOf(last'.arg))
               /\ Age(EntryOf(last'.arg), now) <= SevenDays
               /\ last'.ret = Some(EntryOf(last'.arg).data)
       /\ (last'.op = "get_from_cache" /\ use_cache /\ IsEntry(EntryOf(last'.arg)))
            => (IsNone(last'.ret) <=> Age(EntryOf(last'.arg), now) > SevenDays)
       /\ (/\ last'.op = "get_paper_info"
           /\ validate_doi(last'.arg)
           /\ use_cache
           /\ IsEntry(EntryOf(last'.arg))
           /\ Age(EntryOf(last'.arg), now) > SevenDays)
            => /\ Len(last'.events) >= 3
               /\ SubSeq(EventNames(last'.events), 1, 3) = <<"cache_read", "throttle", "request_a">>
      ]_vars

\* get_paper_info went to provider A, which failed, over an entry that was
\* eight days old when the session began
C8_Witness ==
    /\ last.op = "get_paper_info"
    /\ use_cache
    /\ EntryOf(last.arg) = Aged(8 * DayTicks, PayTwo)
    /\ EventNames(last.events) = <<"cache_read", "throttle", "request_a">>
    /\ IsNone(last.ret)

C10_CacheGetFailsSoft ==
    [][/\ last'.op = "get_from_cache"
            => /\ last'.exc = "none"
               /\ Unusable(EntryOf(last'.arg), now) => IsNone(last'.ret)
       /\ (/\ last'.op = "get_paper_info"
           /\ validate_doi(last'.arg)
           /\ use_cache
           /\ Unusable(EntryOf(last'.arg), now))
            => /\ last'.exc = "none"
               /\ IF IsNone(last'.ret)
                  THEN EventNames(last'.events) = <<"cache_read", "throttle", "request_a">>
                  ELSE EventNames(last'.events) =
                           <<"cache_read", "throttle", "request_a", "cache_write">>
      ]_vars

\* get_paper_info went to provider A over a corrupt cache file
C10_Witness ==
    /\ last.op = "get_paper_info"
    /\ use_cache
    /\ EntryOf(last.arg).kind = "corrupt"
    /\ EventNames(last.events) = <<"cache_read", "throttle", "request_a">>
    /\ last.exc = "none"

-----------------------------------------------------------------------------
(* Properties of the rate limiter *)

\* the throttle events among the events of an operation
Throttles(events) == SelectSeq(events, LAMBDA e : e.e = "throttle")

\* C3: every throttle call releases at least min_delay after the release of
\* the throttle call before it, in the same operation or an earlier one, and
\* last_request_time is the release time of the latest call: the clock
\* reading after its wait, not the reading at which it was invoked.
C3_ThrottleSpacing ==
    [][Throttles(last'.events) # <<>> =>
          LET th == Throttles(last'.events)
          IN  /\ th[1].t1 - last_request_time >= min_delay
              /\ \A i \in 1..(Len(th) - 1) : th[i + 1].t1 - th[i].t1 >= min_delay
              /\ \A i \in 1..Len(th) : th[i].t1 >= th[i].t0
              /\ last_request_time' = th[Len(th)].t1
              /\ last'.op = "wait_between_requests" =>
                    /\ th[1].t0 = now
                    /\ last_request_time' = now']_vars

\* a throttle call that had to wait: it released later than it was invoked
C3_Witness ==
    /\ last.op = "wait_between_requests"
    /\ last.events[1].t1 > last.events[1].t0
    /\ last_request_time = last.events[1].t1

-----------------------------------------------------------------------------
(* Properties of the author disambiguation *)

\* the author list behind the last find_authors of SpecAuthors: the payload
\* of the cache entry it was served from
AuthorsOf(doi) == EntryOf(doi).data.author

MarkedIndexes(authors) ==
    {i \in 1..Len(authors) :
        authors[i].sequence = "additional" /\ authors[i].function = "corresponding"}

\* C4: when some entry of the author list is marked "additional" and
\* "corresponding", find_authors returns as corresponding author the name of
\* the marked entry of highest index.
C4_MarkedEntryIsCorresponding ==
    (/\ last.op = "find_authors"
     /\ MarkedIndexes(AuthorsOf(last.arg)) # {})
        => LET marked == MarkedIndexes(AuthorsOf(last.arg))
               top == CHOOSE i \in marked : \A j \in marked : j <= i
           IN  last.ret[2] = Some(FullName(AuthorsOf(last.arg)[top]))

\* C5: when the author list is not empty and no entry of it is marked
\* "additional" and "corresponding", find_authors returns as corresponding
\* author the name of the last entry and as first author the name of the
\* entry at index 0.
C5_FallbackToLastAuthor ==
    (/\ last.op = "find_authors"
     /\ AuthorsOf(last.arg) # <<>>
     /\ MarkedIndexes(AuthorsOf(last.arg)) = {})
        => /\ last.ret[2] = Some(FullName(AuthorsOf(last.arg)[Len(AuthorsOf(last.arg))]))
           /\ last.ret[1] = Some(FullName(AuthorsOf(last.arg)[1]))

\* the only entry marked corresponding is the first author, of sequence
\* "first": the last entry was returned
C5_Witness ==
    /\ last.op = "find_authors"
    /\ AuthorsOf(last.arg) = <<AuthFirstMarked, AuthPlain>>
    /\ last.ret[1] = Some(<<"A", " ", "O">>)
    /\ last.ret[2] = Some(<<"C">>)

-----------------------------------------------------------------------------
(* Properties of find_authors and of the requests it sends *)

\* the requests to provider A among the events of an operation
RequestsA(events) == SelectSeq(events, LAMBDA e : e.e = "request_a")

\* the payload that the operation with these events obtained for its
\* identifier, entry being the cache file of the identifier before it: the
\* message provider A answered when a request was sent (None when the request
\* raised or was answered without a message), else the payload of the entry
\* when the cache was read, else None
Obtained(events, entry) ==
    IF RequestsA(events) # <<>>
    THEN LET resp == Val(RequestsA(events)[1].resp)
         IN  IF resp.kind = "message" THEN Some(resp.message) ELSE None
    ELSE IF \E i \in 1..Len(events) : events[i].e = "cache_read" THEN Some(entry.data)
    ELSE None

\* C11: find_authors raises nothing; when the payload it obtained, from
\* provider A or from the cache, has an author list (an empty one included) it
\* appends exactly one entry, for its identifier and stamped with the time of
\* its return, at the end of a history otherwise unchanged; when it obtained
\* nothing or a payload without author list it returns the triple of None and
\* leaves the history as it was.
C11_OneEntryPerAuthorList ==
    [][last'.op = "find_authors" =>
          /\ last'.exc = "none"
          /\ IF /\ ~IsNone(Obtained(last'.events, EntryOf(last'.arg)))
                /\ "author" \in Val(Obtained(last'.events, EntryOf(last'.arg))).keys
             THEN /\ Len(search_history') = Len(search_history) + 1
                  /\ SubSeq(search_history', 1, Len(search_history)) = search_history
                  /\ search_history'[Len(search_history')].doi = last'.arg
                  /\ search_history'[Len(search_history')].timestamp = isoformat(now')
             ELSE /\ search_history' = search_history
                  /\ last'.ret = <<None, None, None>>]_vars

\* a second entry was appended for a payload whose author list is empty, the
\* call returning the triple of None all the same
C11_Witness ==
    /\ last.op = "find_authors"
    /\ last.ret = <<None, None, None>>
    /\ RequestsA(last.events) # <<>>
    /\ Val(RequestsA(last.events)[1].resp).message = PayNoAuthors
    /\ Len(search_history) = 2
    /\ search_history[2].doi = last.arg
    /\ ~IsNone(search_history[1].research_info)

\* the answer to the request that get_paper_info sent to provider A
AnswerA(events) == Val(RequestsA(events)[1].resp)

\* C12: when the request of get_paper_info to provider A raises or is
\* answered without a message, get_paper_info returns None, raises nothing
\* and leaves every file of the cache as it was: nothing is written for the
\* identifier, and a stale or corrupt file stays as it is.
C12_FailedRequestLeavesCache ==
    [][(/\ last'.op = "get_paper_info"
        /\ RequestsA(last'.events) # <<>>
        /\ AnswerA(last'.events).kind \in {"error", "nomessage"})
          => /\ IsNone(last'.ret)
             /\ last'.exc = "none"
             /\ cache' = cache
             /\ \A i \in 1..Len(last'.events) : last'.events[i].e # "cache_write"]_vars

\* provider A answered without a message over a corrupt cache file, which is
\* still there
C12_Witness ==
    /\ last.op = "get_paper_info"
    /\ use_cache
    /\ RequestsA(last.events) # <<>>
    /\ AnswerA(last.events).kind = "nomessage"
    /\ EntryOf(last.arg) = CorruptFile
    /\ IsNone(last.ret)

-----------------------------------------------------------------------------
(* Properties of the profile fetch *)

\* the two shapes of a profile fetch: one round-trip, or two
OneRoundTrip == <<"throttle", "request_b_search">>
TwoRoundTrips == <<"throttle", "request_b_search", "throttle", "request_b_fetch">>

\* the answer to the name search of a profile fetch, its second event
SearchAnswer(events) == Val(events[2].resp)

\* each request of these events begins when the throttle before it releases
ThrottledAtOnce(events) ==
    \A i \in 1..Len(events) :
        events[i].e # "throttle" => (i > 1 /\ events[i - 1].e = "throttle"
                                          /\ events[i - 1].t1 = events[i].t0)

\* C13 as amended: a profile fetch throttles and then sends the name search;
\* when the search is answered with at least one match it throttles again
\* and then sends the record fetch, two throttle calls and two requests in
\* all; when the search is answered with zero matches, or fails, the fetch
\* ends after that one throttle call and one request, and with zero matches
\* it returns {papers: [], total: 0}.
C13_ThrottleBeforeEachRoundTrip ==
    [][last'.op = "get_author_research" =>
          /\ Len(last'.events) >= 2
          /\ ThrottledAtOnce(last'.events)
          /\ IF /\ SearchAnswer(last'.events).search = "ok"
                /\ SearchAnswer(last'.events).ids > 0
             THEN EventNames(last'.events) = TwoRoundTrips
             ELSE EventNames(last'.events) = OneRoundTrip
          /\ (/\ SearchAnswer(last'.events).search = "ok"
              /\ SearchAnswer(last'.events).ids = 0)
                => last'.ret = Some([papers |-> <<>>, total |-> 0])]_vars

\* C13 as stated: every profile fetch makes two throttle calls, one before
\* each of its two requests, but for the fetch whose name search yields zero
\* matches, which makes one throttle call and one request.
C13_TwoThrottlesPerFetch ==
    [][last'.op = "get_author_research" =>
          /\ Len(last'.events) >= 2
          /\ IF /\ SearchAnswer(last'.events).search = "ok"
                /\ SearchAnswer(last'.events).ids = 0
             THEN /\ EventNames(last'.events) = OneRoundTrip
                  /\ last'.ret = Some([papers |-> <<>>, total |-> 0])
             ELSE EventNames(last'.events) = TwoRoundTrips]_vars

\* a profile fetch of two round-trips whose second throttle call had to wait
C13_Witness ==
    /\ last.op = "get_author_research"
    /\ EventNames(last.events) = TwoRoundTrips
    /\ last.events[3].t1 > last.events[3].t0
    /\ last.events[4].t0 = last.events[3].t1

\* the requests named e among the events of an operation
RequestsB(events, e) == SelectSeq(events, LAMBDA x : x.e = e)

\* a round-trip of the profile fetch in these events failed: the name search
\* raised, or the record fetch was sent and it raised or the count of the
\* search could not be parsed
FailedB(events) ==
    /\ RequestsB(events, "request_b_search") # <<>>
    /\ \/ Val(RequestsB(events, "request_b_search")[1].resp).search = "error"
       \/ /\ RequestsB(events, "request_b_fetch") # <<>>
          /\ \/ Val(RequestsB(events, "request_b_fetch")[1].resp).fetch = "error"
             \/ IsNone(Val(RequestsB(events, "request_b_fetch")[1].resp).count)

\* C14: when a round-trip of the profile fetch inside find_authors fails, by
\* transport or by parsing, nothing is raised and the profile is exactly
\* {papers: [], total: 0}; find_authors returns the first author, the
\* corresponding author the profile was asked for and that empty profile,
\* and appends one history entry holding the three.
C14_FailedProfileIsEmpty ==
    [][(last'.op = "find_authors" /\ FailedB(last'.events)) =>
          /\ last'.exc = "none"
          /\ last'.ret[3] = Some([papers |-> <<>>, total |-> 0])
          /\ last'.ret[1] =
                 Some(FullName(Val(Obtained(last'.events, EntryOf(last'.arg))).author[1]))
          /\ TruthyStr(last'.ret[2])
          /\ RequestsB(last'.events, "request_b_search")[1].arg = Val(last'.ret[2])
          /\ search_history' =
                 Append(search_history,
                        [doi |-> last'.arg, first_author |-> last'.ret[1],
                         corresponding_author |-> last'.ret[2],
                         timestamp |-> isoformat(now'),
                         research_info |-> last'.ret[3]])]_vars

\* the record fetch returned a block with a title, and the count of the
\* search could not be parsed: the entry appended holds the empty profile
C14_Witness ==
    /\ last.op = "find_authors"
    /\ RequestsB(last.events, "request_b_fetch") # <<>>
    /\ Val(RequestsB(last.events, "request_b_fetch")[1].resp) = RespBBadCount
    /\ search_history # <<>>
    /\ search_history[Len(search_history)].research_info = Some(EmptyProfile)
    /\ search_history[Len(search_history)].corresponding_author = Some(<<"B", " ", "T">>)

-----------------------------------------------------------------------------
(* Properties of the validation *)

\* the whole of s is "10.", k digits for a k from 4 to 9, "/", and one or
\* more characters of the suffix class, with nothing before and nothing after
FullMatch(s) ==
    \E k \in 4..9 :
        /\ Len(s) >= k + 5
        /\ SubSeq(s, 1, 3) = <<"1", "0", ".">>
        /\ \A i \in 4..(k + 3) : IsDigit(s[i])
        /\ s[k + 4] = "/"
        /\ \A i \in (k + 5)..Len(s) : IsSuffixChar(s[i])

\* C15: validate_doi(s) is true exactly when the whole of s matches the
\* identifier pattern: a string with a character outside the pattern before
\* or after the match is rejected.
C15_ValidateIffFullMatch ==
    last.op = "validate_doi" => (last.ret <=> FullMatch(last.arg))

-----------------------------------------------------------------------------
(* Properties of what the session stores *)

\* a cache file written since the session began
WrittenInSession(f) == IsEntry(f) /\ Age(f, SessionStart) <= 0

\* C16: every history entry holds an identifier that validate_doi accepts;
\* every cache file written since the session began is the file of an
\* identifier that validate_doi accepts; and the last operation wrote to the
\* cache only for such an identifier.
C16_StoredIdentifiersAreValid ==
    /\ \A i \in 1..Len(search_history) : validate_doi(search_history[i].doi)
    /\ \A p \in DOMAIN cache :
          WrittenInSession(cache[p]) =>
              \E d \in Dois : validate_doi(d) /\ get_cache_path(d) = p
    /\ \A i \in 1..Len(last.events) :
          last.events[i].e = "cache_write" => validate_doi(last.events[i].arg)

\* a rejected identifier was looked up after an accepted one had been
\* fetched, cached and entered in the history
C16_Witness ==
    /\ last.op = "find_authors"
    /\ ~validate_doi(last.arg)
    /\ search_history # <<>>
    /\ \E p \in DOMAIN cache : WrittenInSession(cache[p])

-----------------------------------------------------------------------------
(* Properties of the export *)

\* the operation o was an export that opened its file
WroteFile(o) == o.op = "export_history" /\ o.ret \in {"exported", "error"}

\* the clock reading a history entry is stamped with
EntryTime(h) == h.timestamp.date * DayTicks + h.timestamp.time

\* the file `name` has a default name whose second began after the last
\* history entry was appended: it was exported after the last find_authors
\* that appended an entry
ExportedSince(name, hist) ==
    /\ name[1] = "search_history_"
    /\ hist # <<>> => name[2] * TicksPerSecond > EntryTime(hist[Len(hist)])

\* C17: two exports under distinct file names with no find_authors between
\* them leave two files with the same rows: an export that directly follows
\* an export under another name writes the rows of that file, and any two
\* files of distinct default names exported since the last entry was
\* appended hold the same rows.
C17_ExportTwiceSameRows ==
    [][/\ (WroteFile(last) /\ WroteFile(last') /\ last'.arg # last.arg)
            => files'[Val(last'.arg)].rows = files'[Val(last.arg)].rows
       /\ \A n1, n2 \in DOMAIN files' :
             (ExportedSince(n1, search_history') /\ ExportedSince(n2, search_history'))
                 => files'[n1].rows = files'[n2].rows]_vars

\* two files of distinct default names, both exported since the last entry
\* was appended, both with a row
C17_Witness ==
    \E n1, n2 \in DOMAIN files :
        /\ n1 # n2
        /\ ExportedSince(n1, search_history)
        /\ ExportedSince(n2, search_history)
        /\ search_history # <<>>
        /\ files[n1].rows # <<>>
        /\ files[n2].rows # <<>>

-----------------------------------------------------------------------------
(* Properties of the fetch from provider A *)

\* C18: with the cache enabled, a get_paper_info that sends its request and
\* is answered with a message does, in this order, the cache read, the
\* throttle, the request and the cache write, returns the message and leaves
\* it in the cache entry of its identifier; and a get_paper_info for the same
\* identifier right after it returns the same payload without a throttle and
\* without a request.
C18_FetchedThenServedFromCache ==
    [][/\ (/\ last'.op = "get_paper_info"
           /\ use_cache
           /\ RequestsA(last'.events) # <<>>
           /\ AnswerA(last'.events).kind = "message")
            => /\ EventNames(last'.events) =
                      <<"cache_read", "throttle", "request_a", "cache_write">>
               /\ last'.ret = Some(AnswerA(last'.events).message)
               /\ cache'[get_cache_path(last'.arg)].data = AnswerA(last'.events).message
       /\ (/\ use_cache
           /\ last.op = "get_paper_info"
           /\ RequestsA(last.events) # <<>>
           /\ ~IsNone(last.ret)
           /\ last'.op = "get_paper_info"
           /\ last'.arg = last.arg)
            => /\ last'.ret = last.ret
               /\ \A i \in 1..Len(last'.events) : ~IsNetwork(last'.events[i])]_vars

-----------------------------------------------------------------------------
(* Properties of the outbound requests *)

IsRequest(e) == e.e \in {"request_a", "request_b_search", "request_b_fetch"}

\* the outbound requests among the events of an operation, in the order sent
Requests(events) == SelectSeq(events, IsRequest)

\* C19: in find_authors every request, to provider A or to provider B, is
\* sent at the release of a throttle call of its own, the event just before
\* it; the requests go out in the order provider A, name search, record
\* fetch; each is sent at least min_delay after the request before it, of
\* this call or of an earlier one, whose time of sending last_request_time
\* holds.
C19_RequestsThrottledAndSpaced ==
    [][last'.op = "find_authors" =>
          /\ \A i \in 1..Len(last'.events) :
                IsRequest(last'.events[i]) =>
                    /\ i > 1
                    /\ last'.events[i - 1].e = "throttle"
                    /\ last'.events[i - 1].t1 = last'.events[i].t0
          /\ EventNames(Requests(last'.events)) \in
                 {<<>>, <<"request_a">>,
                  <<"request_a", "request_b_search">>,
                  <<"request_a", "request_b_search", "request_b_fetch">>,
                  <<"request_b_search">>,
                  <<"request_b_search", "request_b_fetch">>}
          /\ \A i \in 1..(Len(Requests(last'.events)) - 1) :
                Requests(last'.events)[i + 1].t0 - Requests(last'.events)[i].t0 >= min_delay
          /\ Requests(last'.events) # <<>> =>
                /\ Requests(last'.events)[1].t0 - last_request_time >= min_delay
                /\ last_request_time' =
                       Requests(last'.events)[Len(Requests(last'.events))].t0
          /\ Requests(last'.events) = <<>> => last_request_time' = last_request_time]_vars

\* a second find_authors whose first throttle call had to wait for the
\* request of the first, and which sent requests to both providers
C19_Witness ==
    /\ last.op = "find_authors"
    /\ Len(search_history) = 2
    /\ Len(Requests(last.events)) >= 2
    /\ Requests(last.events)[1].e = "request_a"
    /\ Throttles(last.events)[1].t1 > Throttles(last.events)[1].t0

-----------------------------------------------------------------------------
(* Properties of the profile in find_authors *)

\* the name searches sent to provider B among the events of an operation
Searches(events) == SelectSeq(events, LAMBDA e : e.e = "request_b_search")

\* C20: find_authors, served from the cache, sends a name search to provider
\* B exactly when the corresponding author it returns is a name that is not
\* empty, once and for that name; the profile it returns is present exactly
\* then, and the entry it appends holds the same corresponding author and
\* profile; when the author list is empty or the name is empty there is no
\* profile, no request and no throttle call.
C20_ProfileIffCorrespondingAuthor ==
    last.op = "find_authors" =>
        /\ TruthyStr(last.ret[2]) <=> Searches(last.events) # <<>>
        /\ TruthyStr(last.ret[2]) =>
              /\ Len(Searches(last.events)) = 1
              /\ Searches(last.events)[1].arg = Val(last.ret[2])
        /\ TruthyStr(last.ret[2]) <=> ~IsNone(last.ret[3])
        /\ search_history # <<>>
        /\ search_history[Len(search_history)].corresponding_author = last.ret[2]
        /\ search_history[Len(search_history)].research_info = last.ret[3]
        /\ ~TruthyStr(last.ret[2]) =>
              \A i \in 1..Len(last.events) : ~IsNetwork(last.events[i])
        /\ AuthorsOf(last.arg) = <<>> => (IsNone(last.ret[2]) /\ IsNone(last.ret[3]))

\* the last entry of the author list, the one selected, has no name: the
\* corresponding author is the empty string and no profile was fetched
C20_Witness ==
    /\ last.op = "find_authors"
    /\ AuthorsOf(last.arg) = <<AuthFirstMarked, AuthOrg>>
    /\ last.ret[2] = Some(<<>>)
    /\ IsNone(last.ret[3])
    /\ Len(last.events) = 1

=============================================================================
